---- MODULE Spec2Model ----
(***************************************************************************)
(* The reward distribution engine of the wiki token platform:             *)
(*   backend/src/services/token-economy-service.ts  (TokenEconomyService)  *)
(*   backend/src/services/rewards-service.ts        (RewardsService)       *)
(*   backend/src/api/routes/rewards-routes.ts       (admin API)            *)
(*   the weekly-reward-distribution driver script                          *)
(*   backend/models/index.ts                        (the tables)           *)
(*   wct_token::transfer_with_fee                   (the on-chain program) *)
(* The database tables, the external ledger and the two batch jobs are    *)
(* the state; every handler is one action, a batch job one action per     *)
(* loop iteration (the awaits inside one iteration touch rows no other    *)
(* handler reads before writing).                                          *)
(***************************************************************************)
EXTENDS Integers, Sequences, FiniteSets, Bags, TLC

(***************************************************************************)
(* Bounds of the model.                                                    *)
(***************************************************************************)
\* WeeklyReward rows the table may hold
MaxRuns == 2
\* UserReward rows the table may hold
MaxRows == 2
\* transactions the ledger may hold
MaxTx == 2
\* failures of the environment in one behaviour: a database write that
\* throws, a transfer the ledger does not confirm
MaxFaults == 1

(***************************************************************************)
(* Program constants.                                                      *)
(***************************************************************************)
WEEKLY_REWARD_POOL == 200000
MIN_TOKENS_PER_USER == 10

\* DataTypes.ENUM('pending', 'processing', 'completed', 'failed')
StatusEnum == {"pending", "processing", "completed", "failed"}

(***************************************************************************)
(* Input domains.                                                          *)
(***************************************************************************)
Users == {"u1", "u2"}
\* '' is falsy in JS; "invalid" is a string new PublicKey() rejects
WalletKinds == {"", "invalid", "valid"}
\* createdAt values, and the [startDate, endDate] pairs callers pass
Times == 0 .. 2
Windows == {<<0, 1>>, <<1, 2>>, <<2, 2>>}
\* the token balance the paying account starts with
InitBalances == {300000}
\* the Contribution rows present at start
ContributionSets ==
  { { [id |-> 1, userId |-> "u1", createdAt |-> 0, totalPoints |-> 3],
      [id |-> 2, userId |-> "u2", createdAt |-> 1, totalPoints |-> 4] } }

Articles == {"a1"}
\* Tag.bulkCreate([...]): the demand multipliers the tags start with
SeedDemand == [blockchain |-> 200, nft |-> 150, solana |-> 220]
\* Article.Tags
articleTags == [a \in Articles |-> {"solana"}]

\* the value of a request field that is absent
Undefined == -1
\* txHash: null
NullHash == 0

VARIABLES
  walletAddress,      \* User.walletAddress
  totalTokensEarned,  \* User.totalTokensEarned
  contributions,      \* the Contribution table
  weeklyRewards,      \* the WeeklyReward table, a row's id is its index
  userRewards,        \* the UserReward table, a bag of rows
  ledger,             \* the external ledger's transactions, a signature is an index
  balance,            \* the paying token account's balance on the ledger
  dwr,                \* the running distributeWeeklyRewards invocation
  script,             \* the running weekly-reward-distribution script
  faults,             \* the failures of the environment so far
  reputation,         \* User.reputation, in hundredths
  userStats,          \* User.totalContributions and User.totalPoints
  articles,           \* Article.totalRevisions and Article.qualityScore (in hundredths)
  tagDemand,          \* Tag.demandMultiplier, in hundredths
  now,                \* the clock (Date.now(), DataTypes.NOW)
  token               \* the wct_token mint and its token accounts

\* the state of the reward engine but the Contribution table
rewardVars == <<walletAddress, totalTokensEarned, weeklyRewards, userRewards,
                ledger, balance, dwr, script, faults>>

\* the state of the wiki the scoring reads and writes
wikiVars == <<reputation, userStats, articles, tagDemand, now>>

vars == <<contributions, rewardVars, wikiVars, token>>

(***************************************************************************)
(* Helpers.                                                                *)
(***************************************************************************)
Max(a, b) == IF a >= b THEN a ELSE b

\* 1 for a failure, 0 otherwise
Fault(failed) == IF failed THEN 1 ELSE 0

\* the sum of totalPoints over the rows S, value by value
RECURSIVE SumPointsOf(_, _)
SumPointsOf(values, S) ==
  IF values = {} THEN 0
  ELSE LET v == CHOOSE x \in values : TRUE
       IN v * Cardinality({ c \in S : c.totalPoints = v })
            + SumPointsOf(values \ {v}, S)

SumPoints(S) == SumPointsOf({ c.totalPoints : c \in S }, S)

RECURSIVE SumTokens(_)
SumTokens(s) ==
  IF s = <<>> THEN 0 ELSE Head(s).tokenAmount + SumTokens(Tail(s))

RECURSIVE SumPlanPoints(_)
SumPlanPoints(s) ==
  IF s = <<>> THEN 0 ELSE Head(s).points + SumPlanPoints(Tail(s))

\* the sequences that list every element of S once
Orders(S) ==
  { o \in [1 .. Cardinality(S) -> S] : \A i, j \in DOMAIN o : i # j => o[i] # o[j] }

(***************************************************************************)
(* Reward Aggregator and Distribution Planner.                             *)
(***************************************************************************)
\* createdAt: { [Op.between]: [startDate, endDate] }  (SQL BETWEEN)
findContributions(startDate, endDate) ==
  { c \in contributions : startDate <= c.createdAt /\ c.createdAt <= endDate }

\* the keys of userPointsMap
Contributors(startDate, endDate) ==
  { c.userId : c \in findContributions(startDate, endDate) }

\* the grouping with the points assigned instead of added: the points of the
\* contributor's last event
userPointsOverwritten(startDate, endDate, userId) ==
  LET events == { c \in contributions :
                    /\ startDate <= c.createdAt /\ c.createdAt <= endDate
                    /\ c.userId = userId }
  IN IF events = {} THEN 0
     ELSE (CHOOSE c \in events : \A x \in events : x.id <= c.id).totalPoints

\* userPointsMap.get(userId).points
userPoints(startDate, endDate, userId) ==
  SumPoints({ c \in findContributions(startDate, endDate) : c.userId = userId })

\* Math.floor(points * pointToTokenRatio) with pointToTokenRatio = pool /
\* totalPoints.  The quotient of points * pool by totalPoints is computed
\* from pool = a * totalPoints + b, which keeps every product below 2^31.
\* The source computes in doubles: for every (points, totalPoints) the input
\* sets of this module produce, the double result is this quotient; where the
\* exact share is an integer the double product can fall just below it (11 of
\* 11 points give 199999), one token less.
floorShare(points, pool, totalPoints) ==
  points * (pool \div totalPoints) + (points * (pool % totalPoints)) \div totalPoints

\* the planner without the minimum payout
tokenAmountUnfloored(points, pool, totalPoints) ==
  floorShare(points, pool, totalPoints)

\* the planner with the ratio truncated to a whole number of tokens per point
tokenAmountWholeRatio(points, pool, totalPoints) ==
  Max(points * (pool \div totalPoints), MIN_TOKENS_PER_USER)

\* Math.max(Math.floor(points * pointToTokenRatio), MIN_TOKENS_PER_USER)
tokenAmount(points, pool, totalPoints) ==
  Max(floorShare(points, pool, totalPoints), MIN_TOKENS_PER_USER)

\* calculateWeeklyRewards: the rewards in userPointsMap's insertion order,
\* which is the order the database returned the rows in (order)
calculateWeeklyRewards(startDate, endDate, order) ==
  LET totalPoints == SumPoints(findContributions(startDate, endDate))
  IN IF totalPoints = 0 THEN <<>>
     ELSE [ i \in DOMAIN order |->
              [ userId        |-> order[i],
                walletAddress |-> walletAddress[order[i]],
                points        |-> userPoints(startDate, endDate, order[i]),
                tokenAmount   |-> tokenAmount(userPoints(startDate, endDate, order[i]),
                                              WEEKLY_REWARD_POOL, totalPoints) ] ]

(***************************************************************************)
(* The tables.                                                             *)
(***************************************************************************)
\* WeeklyReward.findOne({ where: { weekStartDate, weekEndDate } }): any row
\* of the window (the query has no ORDER BY)
findWeeklyReward(weekStartDate, weekEndDate) ==
  { id \in DOMAIN weeklyRewards :
      /\ weeklyRewards[id].weekStartDate = weekStartDate
      /\ weeklyRewards[id].weekEndDate = weekEndDate }

\* a write of the status column: the ENUM rejects any other value
StatusAccepted(status) == status \in StatusEnum

NoDwr == [ pc |-> "idle", startDate |-> 0, endDate |-> 0, userRewards |-> <<>>,
           i |-> 1, weeklyRewardId |-> 0,
           successfulTransactions |-> 0, failedTransactions |-> 0,
           result |-> "none" ]

\* the invocation has returned: what is left is its TokenDistributionResult,
\*   empty      success: true, totalUsers: 0          (lines 276-287)
\*   success    success: true after the loop           (lines 406-415)
\*   nosuccess  success: false after the loop          (lines 406-415)
\*   error      success: false, errorMessage           (lines 417-431)
Returned(result) == [NoDwr EXCEPT !.pc = "done", !.result = result]

NoScript == [ pc |-> "idle", weekStartDate |-> 0, weekEndDate |-> 0,
              userContributions |-> <<>>, i |-> 1, transactions |-> <<>>,
              exit |-> 0 ]

\* the script's process has ended with this exit code
Exited(code) == [NoScript EXCEPT !.pc = "done", !.exit = code]

\* amounts stand for u64 values: MaxAmount stands for u64::MAX
MaxAmount == 30000
\* transfer_with_fee transactions in one behaviour
MaxCalls == 3

\* the mint and the token accounts before any transfer_with_fee: the sender
\* holds the whole supply
NoTransfer ==
  [ from |-> MaxAmount, to |-> 0, treasury |-> 0, staking |-> 0,
    supply |-> MaxAmount, calls |-> 0, amount |-> 0, fee |-> 0, burned |-> 0 ]

\* the wiki around the Contribution rows the reward engine starts with: the
\* events were reviews and minor edits of the article, by contributors of
\* reputation 1.0; the clock is at the end of the last window
InitWiki ==
  /\ reputation = [u \in Users |-> 100]
  /\ userStats =
       [u \in Users |->
          [ totalContributions |-> Cardinality({ c \in contributions : c.userId = u }),
            totalPoints |-> SumPoints({ c \in contributions : c.userId = u }) ]]
  /\ articles = [a \in Articles |->
                  [ totalRevisions |-> 1 + Cardinality(contributions),
                    qualityScore |-> 100 ]]
  /\ tagDemand = SeedDemand
  /\ now = 2

Init ==
  /\ walletAddress \in { w \in [Users -> WalletKinds] : w["u1"] = "valid" }
  /\ totalTokensEarned = [u \in Users |-> 0]
  /\ contributions \in ContributionSets
  /\ weeklyRewards = <<>>
  /\ userRewards = EmptyBag
  /\ ledger = <<>>
  /\ balance \in InitBalances
  /\ dwr = NoDwr
  /\ script = NoScript
  /\ faults = 0
  /\ token = NoTransfer
  /\ InitWiki

(***************************************************************************)
(* TokenEconomyService.distributeWeeklyRewards                             *)
(***************************************************************************)
\* what the ledger does with one transfer:
\*   send_rejected    sendRawTransaction throws, nothing is submitted
\*   confirmed        confirmTransaction resolves, value.err = null
\*   failed_on_chain  confirmTransaction resolves, value.err # null
\*   timeout_landed   confirmTransaction throws, the transfer landed all the same
\*   timeout_dropped  confirmTransaction throws, the transfer never landed
\* the ledger keeps the transactions it processed: the landed and the failed ones
LedgerOutcomes ==
  {"send_rejected", "confirmed", "failed_on_chain", "timeout_landed", "timeout_dropped"}

\* the transfer moved tokens
Landed(outcome) == outcome \in {"confirmed", "timeout_landed"}

\* the ledger processed the transaction
Processed(outcome) == outcome \in {"confirmed", "failed_on_chain", "timeout_landed"}

\* the status a processed transaction has on the ledger
TxStatus(outcome) == IF Landed(outcome) THEN "confirmed" ELSE "failed"

\* await connection.confirmTransaction(signature) returns (its result is not read)
ConfirmReturns(outcome) == outcome \in {"confirmed", "failed_on_chain"}

\* status: successfulTransactions > 0 ? failedTransactions > 0 ? 'partial' : 'completed' : 'failed'
finalStatus(successfulTransactions, failedTransactions) ==
  IF successfulTransactions > 0
  THEN IF failedTransactions > 0 THEN "partial" ELSE "completed"
  ELSE "failed"

\* lines 272-300: calculateWeeklyRewards, the early return, WeeklyReward.create
\* (dbOk: the write succeeds)
DwrStart(startDate, endDate, order, dbOk) ==
  LET plan == calculateWeeklyRewards(startDate, endDate, order)
      totalPoints == SumPlanPoints(plan)
      row == [ weekStartDate |-> startDate, weekEndDate |-> endDate,
               totalPoints |-> totalPoints, totalTokens |-> SumTokens(plan),
               pointToTokenRatio |-> <<WEEKLY_REWARD_POOL, totalPoints>>,
               status |-> "processing" ]
  IN /\ dwr.pc \in {"idle", "done"}
     /\ plan = <<>> => dbOk
     /\ faults + Fault(~dbOk) <= MaxFaults
     /\ faults' = faults + Fault(~dbOk)
     /\ IF plan = <<>>
        THEN /\ dwr' = Returned("empty")
             /\ UNCHANGED weeklyRewards
        ELSE IF dbOk
        THEN /\ Len(weeklyRewards) < MaxRuns
             /\ weeklyRewards' = Append(weeklyRewards, row)
             /\ dwr' = [NoDwr EXCEPT !.pc = "loop", !.startDate = startDate,
                                     !.endDate = endDate, !.userRewards = plan,
                                     !.weeklyRewardId = Len(weeklyRewards) + 1]
        ELSE \* WeeklyReward.create throws: the outer catch
             /\ dwr' = Returned("error")
             /\ UNCHANGED weeklyRewards
     /\ UNCHANGED <<wikiVars, token, walletAddress, totalTokensEarned, contributions, userRewards,
                    ledger, balance, script>>

\* lines 316-395: one iteration of for (const reward of userRewards); a call
\* that is not reached does not fail
DwrStep(outcome, dbCreate, dbIncrement, dbFailed) ==
  LET reward == dwr.userRewards[dwr.i]
      noWallet == reward.walletAddress = ""
      badKey == reward.walletAddress = "invalid"
      sends == ~noWallet /\ ~badKey
      processed == sends /\ Processed(outcome)
      landed == sends /\ Landed(outcome)
      signature == Len(ledger) + 1
      creates == sends /\ ConfirmReturns(outcome)
      created == creates /\ dbCreate
      incremented == created /\ dbIncrement
      caught == ~noWallet /\ ~incremented
      failedCreated == caught /\ dbFailed
      used == Fault(outcome # "confirmed") + Fault(~dbCreate)
                + Fault(~dbIncrement) + Fault(~dbFailed)
      row(txHash) == [ userId |-> reward.userId, weeklyRewardId |-> dwr.weeklyRewardId,
                       points |-> reward.points, tokens |-> reward.tokenAmount,
                       txHash |-> txHash ]
  IN /\ dwr.pc = "loop"
     /\ dwr.i <= Len(dwr.userRewards)
     /\ ~sends => outcome = "confirmed"
     /\ ~creates => dbCreate
     /\ ~created => dbIncrement
     /\ ~caught => dbFailed
     /\ faults + used <= MaxFaults
     /\ faults' = faults + used
     /\ landed => balance >= reward.tokenAmount
     /\ processed => Len(ledger) < MaxTx
     /\ ledger' = IF processed
                  THEN Append(ledger, [ to |-> reward.userId, amount |-> reward.tokenAmount,
                                        status |-> TxStatus(outcome),
                                        run |-> dwr.weeklyRewardId ])
                  ELSE ledger
     /\ balance' = IF landed THEN balance - reward.tokenAmount ELSE balance
     /\ userRewards' = userRewards
                         (+) (IF created THEN SetToBag({row(signature)}) ELSE EmptyBag)
                         (+) (IF failedCreated THEN SetToBag({row(NullHash)}) ELSE EmptyBag)
     /\ BagCardinality(userRewards') <= MaxRows
     /\ totalTokensEarned' =
          IF incremented
          THEN [totalTokensEarned EXCEPT ![reward.userId] = @ + reward.tokenAmount]
          ELSE totalTokensEarned
     /\ dwr' = IF caught /\ ~dbFailed
               THEN \* UserReward.create in the catch block throws: the outer catch
                    Returned("error")
               ELSE [dwr EXCEPT
                       !.i = @ + 1,
                       !.successfulTransactions = IF incremented THEN @ + 1 ELSE @,
                       !.failedTransactions = IF noWallet \/ failedCreated THEN @ + 1 ELSE @]
     /\ UNCHANGED <<wikiVars, token, walletAddress, contributions, weeklyRewards, script>>

\* lines 397-431: weeklyReward.update({ status }), the return, the outer catch
DwrFinish(dbOk) ==
  LET status == finalStatus(dwr.successfulTransactions, dwr.failedTransactions)
  IN /\ dwr.pc = "loop"
     /\ dwr.i > Len(dwr.userRewards)
     /\ faults + Fault(~dbOk) <= MaxFaults
     /\ faults' = faults + Fault(~dbOk)
     /\ IF dbOk /\ StatusAccepted(status)
        THEN /\ weeklyRewards' = [weeklyRewards EXCEPT ![dwr.weeklyRewardId].status = status]
             /\ dwr' = Returned(IF dwr.successfulTransactions > 0
                                THEN "success" ELSE "nosuccess")
        ELSE \* weeklyReward.update throws: the outer catch
             /\ dwr' = Returned("error")
             /\ UNCHANGED weeklyRewards
     /\ UNCHANGED <<wikiVars, token, walletAddress, totalTokensEarned, contributions, userRewards,
                    ledger, balance, script>>

distributeWeeklyRewards ==
  \/ \E w \in Windows, dbOk \in BOOLEAN :
       \E order \in Orders(Contributors(w[1], w[2])) : DwrStart(w[1], w[2], order, dbOk)
  \/ \E outcome \in LedgerOutcomes, dbCreate, dbIncrement, dbFailed \in BOOLEAN :
       DwrStep(outcome, dbCreate, dbIncrement, dbFailed)
  \/ \E dbOk \in BOOLEAN : DwrFinish(dbOk)

(***************************************************************************)
(* RewardsService and the admin API.  A request that ends in a 4xx or 5xx *)
(* response without a write leaves the state as it is.                     *)
(***************************************************************************)
\* RewardsService.calculateRewards(startDate, endDate).totalPoints
calculateRewardsTotal(startDate, endDate) ==
  SumPoints(findContributions(startDate, endDate))

\* if (totalPoints === 0 || users.length === 0) throw new Error(...): the
\* route answers 500
createWeeklyRewardThrows(startDate, endDate) ==
  \/ calculateRewardsTotal(startDate, endDate) = 0
  \/ Contributors(startDate, endDate) = {}

\* POST /rewards/create-distribution -> RewardsService.createWeeklyReward
createWeeklyReward(startDate, endDate, totalTokens) ==
  LET totalPoints == calculateRewardsTotal(startDate, endDate)
  IN /\ ~createWeeklyRewardThrows(startDate, endDate)
     /\ Len(weeklyRewards) < MaxRuns
     /\ weeklyRewards' = Append(weeklyRewards,
          [ weekStartDate |-> startDate, weekEndDate |-> endDate,
            totalPoints |-> totalPoints, totalTokens |-> totalTokens,
            pointToTokenRatio |-> <<totalTokens, totalPoints>>,
            status |-> "pending" ])
     /\ UNCHANGED <<wikiVars, token, walletAddress, totalTokensEarned, contributions, userRewards,
                    ledger, balance, dwr, script, faults>>

\* <<q, r>> with a * b = q * d + r and 0 <= r < d, by halving b: no
\* intermediate value exceeds 3 * d or the quotient
RECURSIVE MulDivRem(_, _, _)
MulDivRem(a, b, d) ==
  IF b = 0 THEN <<0, 0>>
  ELSE LET half == MulDivRem(a, b \div 2, d)
           rest == 2 * half[2] + (b % 2) * (a % d)
       IN <<2 * half[1] + (b % 2) * (a \div d) + rest \div d, rest % d>>

\* Math.round(tokens / weeklyReward.pointToTokenRatio), the ratio num / den:
\* floor((2 * tokens * den + num) / (2 * num))
roundedPoints(tokens, ratio) ==
  LET twice == MulDivRem(2 * tokens, ratio[2], 2 * ratio[1])
  IN twice[1] + (twice[2] + ratio[1]) \div (2 * ratio[1])

\* RewardsService.processUserReward: the table after UserReward.create
processUserRewardRows(weeklyRewardId, userId, tokens, txHash) ==
  userRewards (+) SetToBag({
         [ userId |-> userId, weeklyRewardId |-> weeklyRewardId,
           points |-> roundedPoints(tokens, weeklyRewards[weeklyRewardId].pointToTokenRatio),
           tokens |-> tokens, txHash |-> txHash ] })

\* RewardsService.processUserReward: the counters after User.increment
\* (dbIncrement: the write succeeds)
processUserRewardEarned(userId, tokens, dbIncrement) ==
  IF dbIncrement
  THEN [totalTokensEarned EXCEPT ![userId] = @ + tokens]
  ELSE totalTokensEarned

\* POST /rewards/confirm { userId, tokens, txHash, weekStartDate, weekEndDate }
PostConfirm(userId, tokens, txHash, weekStartDate, weekEndDate, dbIncrement) ==
  /\ tokens # 0 /\ txHash # NullHash
  /\ \E id \in findWeeklyReward(weekStartDate, weekEndDate) :
       userRewards' = processUserRewardRows(id, userId, tokens, txHash)
  /\ BagCardinality(userRewards') <= MaxRows
  /\ faults + Fault(~dbIncrement) <= MaxFaults
  /\ faults' = faults + Fault(~dbIncrement)
  /\ totalTokensEarned' = processUserRewardEarned(userId, tokens, dbIncrement)
  /\ UNCHANGED <<wikiVars, token, walletAddress, contributions, weeklyRewards, ledger, balance,
                 dwr, script>>

\* completeStatus with the run put back in the queue when a transfer failed
completeStatusReopens(successfulTransactions, totalUsers) ==
  IF successfulTransactions = totalUsers THEN "completed" ELSE "pending"

\* successfulTransactions === totalUsers ? 'completed' : 'partial'
completeStatus(successfulTransactions, totalUsers) ==
  IF successfulTransactions = totalUsers THEN "completed" ELSE "partial"

\* POST /rewards/distribution-complete
PostDistributionComplete(weekStartDate, weekEndDate, totalUsers, successfulTransactions) ==
  LET status == completeStatus(successfulTransactions, totalUsers)
  IN /\ StatusAccepted(status)
     /\ \E id \in findWeeklyReward(weekStartDate, weekEndDate) :
          weeklyRewards' = [weeklyRewards EXCEPT ![id].status = status]
     /\ UNCHANGED <<wikiVars, token, walletAddress, totalTokensEarned, contributions, userRewards,
                    ledger, balance, dwr, script, faults>>

\* RewardsService.completeDistribution(weeklyRewardId, txHash)
completeDistribution(weeklyRewardId) ==
  /\ weeklyRewardId \in DOMAIN weeklyRewards
  /\ weeklyRewards' = [weeklyRewards EXCEPT ![weeklyRewardId].status = "completed"]
  /\ UNCHANGED <<wikiVars, token, walletAddress, totalTokensEarned, contributions, userRewards,
                 ledger, balance, dwr, script, faults>>

\* the <<totalUsers, successfulTransactions>> a caller reports: every
\* transfer succeeded, one failed, the fields are missing
ReportedCounts == {<<2, 2>>, <<2, 1>>, <<Undefined, Undefined>>}

\* a confirm request reports a transaction of the ledger
AdminConfirm ==
  \E sig \in DOMAIN ledger, w \in Windows, dbIncrement \in BOOLEAN :
    PostConfirm(ledger[sig].to, ledger[sig].amount, sig, w[1], w[2], dbIncrement)

AdminApi ==
  \/ \E w \in Windows : createWeeklyReward(w[1], w[2], WEEKLY_REWARD_POOL)
  \/ AdminConfirm
  \/ \E w \in Windows, counts \in ReportedCounts :
       PostDistributionComplete(w[1], w[2], counts[1], counts[2])
  \/ \E id \in 1 .. MaxRuns : completeDistribution(id)

(***************************************************************************)
(* The weekly-reward-distribution script (main), the external driver of   *)
(* the admin API.                                                          *)
(***************************************************************************)
\* GET /rewards/calculate, then lines 653-663: userContributions, in the
\* order of Object.values(userPoints)
scriptContributions(startDate, endDate, order) ==
  LET totalPoints == calculateRewardsTotal(startDate, endDate)
  IN [ i \in DOMAIN order |->
         [ userId        |-> order[i],
           walletAddress |-> walletAddress[order[i]],
           points        |-> userPoints(startDate, endDate, order[i]),
           tokenAmount   |-> tokenAmount(userPoints(startDate, endDate, order[i]),
                                         WEEKLY_REWARD_POOL, totalPoints) ] ]

\* lines 677-679: BigInt(authorityAccountInfo.amount) < BigInt(totalTokensNeededRaw)
insufficientBalance(amount, totalTokensNeeded) == amount < totalTokensNeeded

\* lines 625-692: the window, the contributions, the balance check
ScriptStart(startDate, endDate, order) ==
  LET plan == scriptContributions(startDate, endDate, order)
  IN /\ script.pc \in {"idle", "done"}
     /\ script' =
          IF order = <<>> \/ calculateRewardsTotal(startDate, endDate) = 0
          THEN Exited(0)
          ELSE IF insufficientBalance(balance, SumTokens(plan))
          THEN Exited(1)
          ELSE [NoScript EXCEPT !.pc = "loop", !.weekStartDate = startDate,
                                !.weekEndDate = endDate, !.userContributions = plan]
     /\ UNCHANGED <<wikiVars, token, walletAddress, totalTokensEarned, contributions, weeklyRewards,
                    userRewards, ledger, balance, dwr, faults>>

\* program.methods.distributeInitialTokens(...).rpc() returns the signature:
\* it sends, confirms and throws on a transaction error
RpcReturns(outcome) == outcome = "confirmed"

\* lines 694-768: one iteration of for (const user of userContributions),
\* with the POST /rewards/confirm it makes; a call that is not reached does
\* not fail
ScriptStep(outcome, id, dbCreate, dbIncrement) ==
  LET user == script.userContributions[script.i]
      sends == user.walletAddress = "valid"
      processed == sends /\ Processed(outcome)
      landed == sends /\ Landed(outcome)
      signature == Len(ledger) + 1
      returned == sends /\ RpcReturns(outcome)
      found == findWeeklyReward(script.weekStartDate, script.weekEndDate)
      creates == returned /\ found # {}
      created == creates /\ dbCreate
      confirmed == created /\ dbIncrement
      used == Fault(outcome # "confirmed") + Fault(~dbCreate) + Fault(~dbIncrement)
      entry(status) == [ userId |-> user.userId, status |-> status ]
  IN /\ script.pc = "loop"
     /\ script.i <= Len(script.userContributions)
     /\ ~sends => outcome = "confirmed"
     /\ IF creates THEN id \in found ELSE id = 0
     /\ ~creates => dbCreate
     /\ ~created => dbIncrement
     /\ faults + used <= MaxFaults
     /\ faults' = faults + used
     /\ landed => balance >= user.tokenAmount
     /\ processed => Len(ledger) < MaxTx
     /\ ledger' = IF processed
                  THEN Append(ledger, [ to |-> user.userId, amount |-> user.tokenAmount,
                                        status |-> TxStatus(outcome), run |-> 0 ])
                  ELSE ledger
     /\ balance' = IF landed THEN balance - user.tokenAmount ELSE balance
     /\ userRewards' = IF created
                       THEN processUserRewardRows(id, user.userId, user.tokenAmount, signature)
                       ELSE userRewards
     /\ BagCardinality(userRewards') <= MaxRows
     /\ totalTokensEarned' =
          IF created
          THEN processUserRewardEarned(user.userId, user.tokenAmount, dbIncrement)
          ELSE totalTokensEarned
     /\ script' = [script EXCEPT
          !.i = @ + 1,
          !.transactions = @ \o (IF returned THEN <<entry("success")>> ELSE <<>>)
                             \o (IF ~confirmed THEN <<entry("failed")>> ELSE <<>>)]
     /\ UNCHANGED <<wikiVars, token, walletAddress, contributions, weeklyRewards, dwr>>

\* transactions.filter(tx => tx.status === status).length
countStatus(transactions, status) ==
  Cardinality({ k \in DOMAIN transactions : transactions[k].status = status })

\* lines 770-811: the summary and POST /rewards/distribution-complete
ScriptFinish(id) ==
  LET totalUsers == Len(script.userContributions)
      successfulTransactions == countStatus(script.transactions, "success")
      status == completeStatus(successfulTransactions, totalUsers)
      found == findWeeklyReward(script.weekStartDate, script.weekEndDate)
      saved == found # {} /\ StatusAccepted(status)
  IN /\ script.pc = "loop"
     /\ script.i > Len(script.userContributions)
     /\ IF saved THEN id \in found ELSE id = 0
     /\ weeklyRewards' = IF saved
                         THEN [weeklyRewards EXCEPT ![id].status = status]
                         ELSE weeklyRewards
     /\ script' = Exited(IF saved THEN 0 ELSE 1)
     /\ UNCHANGED <<wikiVars, token, walletAddress, totalTokensEarned, contributions, userRewards,
                    ledger, balance, dwr, faults>>

weeklyRewardDistribution ==
  \/ \E w \in Windows : \E order \in Orders(Contributors(w[1], w[2])) :
       ScriptStart(w[1], w[2], order)
  \/ \E outcome \in LedgerOutcomes, id \in 0 .. MaxRuns, dbCreate, dbIncrement \in BOOLEAN :
       ScriptStep(outcome, id, dbCreate, dbIncrement)
  \/ \E id \in 0 .. MaxRuns : ScriptFinish(id)

Next ==
  \/ distributeWeeklyRewards
  \/ AdminApi

Spec == Init /\ [][Next]_vars

NextScript ==
  \/ weeklyRewardDistribution
  \/ AdminApi

SpecScript == Init /\ [][NextScript]_vars

(***************************************************************************)
(* The aggregator and the planner on their own: every entry point that     *)
(* aggregates a window, over a wider range of Contribution rows.           *)
(***************************************************************************)
\* the events of u2 at createdAt = 1: one small event, or eighteen events of
\* the largest score one event can have, floor(200 * 3.0 * 1.5 * 2.5)
SmallEvents == { [id |-> 2, userId |-> "u2", createdAt |-> 1, totalPoints |-> 4] }
LargeEvents ==
  { [id |-> i, userId |-> "u2", createdAt |-> 1, totalPoints |-> 2250] : i \in 4 .. 21 }

\* the Contribution rows present at start: two events of u1, the second one
\* anywhere in time, and the events of u2
PlanContributionSets ==
  { { [id |-> 1, userId |-> "u1", createdAt |-> 0, totalPoints |-> p1],
      [id |-> 3, userId |-> "u1", createdAt |-> t3, totalPoints |-> p3] } \cup others :
    p1 \in {2, 3}, p3 \in {2, 5}, t3 \in Times, others \in {SmallEvents, LargeEvents} }

InitPlan ==
  /\ walletAddress = [u \in Users |-> "valid"]
  /\ totalTokensEarned = [u \in Users |-> 0]
  /\ contributions \in PlanContributionSets
  /\ weeklyRewards = <<>>
  /\ userRewards = EmptyBag
  /\ ledger = <<>>
  /\ balance \in InitBalances
  /\ dwr = NoDwr
  /\ script = NoScript
  /\ faults = 0
  /\ token = NoTransfer
  /\ InitWiki

NextPlan ==
  \/ \E w \in Windows : \E order \in Orders(Contributors(w[1], w[2])) :
       DwrStart(w[1], w[2], order, TRUE)
  \/ \E w \in Windows : \E order \in Orders(Contributors(w[1], w[2])) :
       ScriptStart(w[1], w[2], order)
  \/ \E w \in Windows : createWeeklyReward(w[1], w[2], WEEKLY_REWARD_POOL)

SpecPlan == InitPlan /\ [][NextPlan]_vars

(***************************************************************************)
(* The driver script and the admin API over a week in which one            *)
(* contributor has nearly all the points.                                  *)
(***************************************************************************)
\* the events of u2 at createdAt = 1: twenty-two events of the largest score
\* and one creation of floor(166 * 3.0 * 1.0 * 1.0), 49998 points in all
HugeEvents ==
  { [id |-> i, userId |-> "u2", createdAt |-> 1, totalPoints |-> 2250] : i \in 4 .. 25 }
    \cup { [id |-> 26, userId |-> "u2", createdAt |-> 1, totalPoints |-> 498] }

\* the Contribution rows present at start: one event of u1 of the smallest
\* score, floor(5 * 0.5 * 0.8 * 1.0), and the events of u2
ConfirmContributionSets ==
  { { [id |-> 1, userId |-> "u1", createdAt |-> 0, totalPoints |-> 2] } \cup others :
      others \in {SmallEvents, HugeEvents} }

InitConfirm ==
  /\ walletAddress = [u \in Users |-> "valid"]
  /\ totalTokensEarned = [u \in Users |-> 0]
  /\ contributions \in ConfirmContributionSets
  /\ weeklyRewards = <<>>
  /\ userRewards = EmptyBag
  /\ ledger = <<>>
  /\ balance \in InitBalances
  /\ dwr = NoDwr
  /\ script = NoScript
  /\ faults = 0
  /\ token = NoTransfer
  /\ InitWiki

SpecConfirm == InitConfirm /\ [][NextScript]_vars

(***************************************************************************)
(* TokenEconomyService.calculatePoints and recordContribution.  The        *)
(* multipliers are fixed-point, in hundredths.  For the values drawn here  *)
(* the double product of the source has the floor of the exact product.    *)
(* Timestamps other than createdAt are left out.                           *)
(***************************************************************************)
\* Contribution rows recordContribution may add
MaxEvents == 2

ContributionTypes == {"creation", "major_edit", "minor_edit", "review"}

\* basePointsRange, as <<min, max>>
basePointsRange(contributionType) ==
  CASE contributionType = "creation" -> <<50, 200>>
    [] contributionType = "major_edit" -> <<20, 100>>
    [] contributionType = "minor_edit" -> <<5, 20>>
    [] contributionType = "review" -> <<10, 50>>
    [] OTHER -> <<10, 20>>

\* Math.floor(min + Math.random() * (max - min + 1)): the ends of the range
BasePointsDrawn(contributionType) ==
  { basePointsRange(contributionType)[1], basePointsRange(contributionType)[2] }

\* parseFloat((0.5 + Math.random() * 2.5).toFixed(2)): the ends of the range
QualityDrawn == {50, 300}

\* the tags a caller passes: none, two known tags, an unknown tag
TagInputs == { {}, {"blockchain", "nft"}, {"unknown"} }

RECURSIVE SumDemand(_)
SumDemand(names) ==
  IF names = {} THEN 0
  ELSE LET n == CHOOSE x \in names : TRUE
       IN tagDemand[n] + SumDemand(names \ {n})

\* tags.reduce((sum, tag) => sum + tag.demandMultiplier, 0) / tags.length
averageDemand(names) == SumDemand(names) \div Cardinality(names)

\* lines 91-114: the tags passed and found, else the tags of the article, else 1.0
demandMultiplier(tags, articleId) ==
  IF tags # {}
  THEN IF tags \cap DOMAIN tagDemand # {}
       THEN averageDemand(tags \cap DOMAIN tagDemand)
       ELSE 100
  ELSE IF articleTags[articleId] # {}
       THEN averageDemand(articleTags[articleId])
       ELSE 100

\* the score with the product truncated after every factor
totalPointsFlooredPerFactor(basePoints, quality, rep, demand) ==
  (((((basePoints * quality) \div 100) * rep) \div 100) * demand) \div 100

\* Math.floor(basePoints * qualityMultiplier * reputationMultiplier * demandMultiplier)
calculateTotalPoints(basePoints, quality, rep, demand) ==
  (basePoints * quality * rep * demand) \div 1000000

\* calculatePoints, with the two random draws as parameters
calculatePoints(contributionType, userId, articleId, tags, basePoints, quality) ==
  [ basePoints |-> basePoints,
    qualityMultiplier |-> quality,
    reputationMultiplier |-> reputation[userId],
    demandMultiplier |-> demandMultiplier(tags, articleId),
    totalPoints |-> calculateTotalPoints(basePoints, quality, reputation[userId],
                                         demandMultiplier(tags, articleId)) ]

\* recordContribution; createdAt is the clock (DataTypes.NOW), which ticks
\* with every event
recordContribution(userId, articleId, contributionType, tags, basePoints, quality) ==
  LET pointsData == calculatePoints(contributionType, userId, articleId, tags,
                                    basePoints, quality)
      id == Cardinality(contributions) + 1
  IN /\ Cardinality(contributions) < MaxEvents
     /\ contributions' = contributions \cup
          { [ id |-> id, userId |-> userId, articleId |-> articleId,
              type |-> contributionType,
              basePoints |-> pointsData.basePoints,
              qualityMultiplier |-> pointsData.qualityMultiplier,
              reputationMultiplier |-> pointsData.reputationMultiplier,
              demandMultiplier |-> pointsData.demandMultiplier,
              totalPoints |-> pointsData.totalPoints,
              createdAt |-> now ] }
     /\ now' = now + 1
     /\ userStats' = [userStats EXCEPT
          ![userId].totalContributions = @ + 1,
          ![userId].totalPoints = @ + pointsData.totalPoints]
     /\ articles' = [articles EXCEPT
          ![articleId].totalRevisions =
             IF contributionType # "creation" THEN @ + 1 ELSE @,
          ![articleId].qualityScore =
             IF contributionType \in {"creation", "major_edit"}
             THEN pointsData.qualityMultiplier ELSE @]
     /\ UNCHANGED <<rewardVars, token, reputation, tagDemand>>

InitScoring ==
  /\ contributions = {}
  /\ reputation \in { rep \in [Users -> {80, 100, 150}] : rep["u1"] # 100 /\ rep["u2"] = 100 }
  /\ userStats = [u \in Users |-> [totalContributions |-> 0, totalPoints |-> 0]]
  /\ articles = [a \in Articles |-> [totalRevisions |-> 1, qualityScore |-> 100]]
  /\ tagDemand = SeedDemand
  /\ now = 1
  /\ walletAddress = [u \in Users |-> "valid"]
  /\ totalTokensEarned = [u \in Users |-> 0]
  /\ weeklyRewards = <<>>
  /\ userRewards = EmptyBag
  /\ ledger = <<>>
  /\ balance \in InitBalances
  /\ dwr = NoDwr
  /\ script = NoScript
  /\ faults = 0
  /\ token = NoTransfer

NextScoring ==
  \E userId \in Users, articleId \in Articles, contributionType \in ContributionTypes,
     tags \in TagInputs, quality \in QualityDrawn :
    \E basePoints \in BasePointsDrawn(contributionType) :
      recordContribution(userId, articleId, contributionType, tags, basePoints, quality)

SpecScoring == InitScoring /\ [][NextScoring]_vars

(***************************************************************************)
(* The periodic jobs: TokenEconomyService.updateUserReputation and         *)
(* updateTagDemandMultipliers.  The clock counts days.                     *)
(***************************************************************************)
\* days the clock may advance
MaxDays == 32

\* limit: 100
HistoryLimit == 100
\* Date.now() - 30 * 24 * 60 * 60 * 1000
RecentDays == 30

Min(a, b) == IF a <= b THEN a ELSE b

\* the sum of qualityMultiplier over the rows S, value by value
RECURSIVE SumQualityOf(_, _)
SumQualityOf(values, S) ==
  IF values = {} THEN 0
  ELSE LET v == CHOOSE x \in values : TRUE
       IN v * Cardinality({ c \in S : c.qualityMultiplier = v })
            + SumQualityOf(values \ {v}, S)

SumQuality(S) == SumQualityOf({ c.qualityMultiplier : c \in S }, S)

\* Contribution.findAll({ where: { userId }, order: [['createdAt', 'DESC']],
\* limit: 100 }): the results the query can have; rows of equal createdAt
\* come in any order, so any of them may be the ones the limit cuts
lastContributions(userId) ==
  LET all == { c \in contributions : c.userId = userId }
      sure == { c \in all :
                  Cardinality({ x \in all \ {c} : x.createdAt >= c.createdAt })
                    < HistoryLimit }
      edge == { c \in all \ sure :
                  Cardinality({ x \in all : x.createdAt > c.createdAt }) < HistoryLimit }
  IN { sure \cup tied : tied \in
         { t \in SUBSET edge :
             Cardinality(sure \cup t) = Min(HistoryLimit, Cardinality(all)) } }

\* the reputation with the average quality stored as it is
newReputationUnscaled(sumQuality, length) ==
  Max(50, Min(300, sumQuality \div length))

\* 0.8 + (avgQuality - 0.5) * (0.7 / 2.5) with avgQuality = sumQuality /
\* length, in hundredths; for the histories of this module the quotient is
\* whole
baseReputation(sumQuality, length) ==
  80 + ((sumQuality - 50 * length) * 28) \div (100 * length)

\* Math.max(0.8, Math.min(1.5, baseReputation * (1 + stakingBoost / 100))),
\* stakingBoost = 0
newReputation(sumQuality, length) ==
  Max(80, Min(150, baseReputation(sumQuality, length)))

\* the value updateUserReputation returns when the query returns history
updateUserReputationReturns(history) ==
  IF history = {} THEN 100
  ELSE newReputation(SumQuality(history), Cardinality(history))

\* updateUserReputation that also brings the contributor's events up to date
updateUserReputationRescoring(userId) ==
  \E history \in lastContributions(userId) :
    IF history = {}
    THEN UNCHANGED vars
    ELSE /\ reputation' =
              [reputation EXCEPT ![userId] = updateUserReputationReturns(history)]
         /\ contributions' =
              { IF c.userId = userId
                THEN [c EXCEPT !.reputationMultiplier = reputation'[userId],
                               !.totalPoints = (c.basePoints * c.qualityMultiplier
                                   * reputation'[userId] * c.demandMultiplier) \div 1000000]
                ELSE c : c \in contributions }
         /\ UNCHANGED <<rewardVars, token, userStats, articles, tagDemand, now>>

\* updateUserReputation(userId)
updateUserReputation(userId) ==
  \E history \in lastContributions(userId) :
    IF history = {}
    THEN UNCHANGED vars
    ELSE /\ reputation' =
              [reputation EXCEPT ![userId] = updateUserReputationReturns(history)]
         /\ UNCHANGED <<contributions, rewardVars, token, userStats, articles, tagDemand, now>>

\* article.Contributions: the contributions to the article of the last 30 days
recentContributions(articleId) ==
  { c \in contributions : c.articleId = articleId /\ c.createdAt >= now - RecentDays }

RECURSIVE SumRecent(_)
SumRecent(S) ==
  IF S = {} THEN 0
  ELSE LET a == CHOOSE x \in S : TRUE
       IN Cardinality(recentContributions(a)) + SumRecent(S \ {a})

\* totalContributions of a tag, over tag.Articles
totalContributions(tag) ==
  SumRecent({ a \in Articles : tag \in articleTags[a] })

\* the multiplier without Math.min
newDemandMultiplierUnclamped(count) ==
  IF count > 0 THEN 100 + count * 10 ELSE 100

\* 1.0, or 1.0 + Math.min(1.5, totalContributions / 10)
newDemandMultiplier(count) ==
  IF count > 0 THEN 100 + Min(150, count * 10) ELSE 100

\* The doubles 1.0 + k / 10: of two of them ten hundredths apart, the
\* difference the source computes is above the double 0.1 when the smaller one
\* is one of these, and below it otherwise (1.1 - 1.0 > 0.1 > 1.2 - 1.1).
RoundsAboveTenth == {100, 120, 140, 150, 170, 190, 200, 210, 230, 240}

\* Math.abs(newDemandMultiplier - tag.demandMultiplier) > 0.1
changedSignificantly(new, old) ==
  \/ Max(new, old) - Min(new, old) > 10
  \/ Max(new, old) - Min(new, old) = 10 /\ Min(new, old) \in RoundsAboveTenth

\* the Tag table after the loop of updateTagDemandMultipliers
demandAfterUpdate ==
  [ tag \in DOMAIN tagDemand |->
      IF changedSignificantly(newDemandMultiplier(totalContributions(tag)), tagDemand[tag])
      THEN newDemandMultiplier(totalContributions(tag))
      ELSE tagDemand[tag] ]

\* the value updateTagDemandMultipliers returns
updatedTags ==
  Cardinality({ tag \in DOMAIN tagDemand : demandAfterUpdate[tag] # tagDemand[tag] })

\* updateTagDemandMultipliers(): each tag.update writes one row, no other
\* row is read after it
updateTagDemandMultipliers ==
  /\ tagDemand' = demandAfterUpdate
  /\ UNCHANGED <<contributions, rewardVars, token, reputation, userStats, articles, now>>

\* a day passes
Tick ==
  /\ now < HistoryLimit + MaxDays
  /\ now' = now + 1
  /\ UNCHANGED <<contributions, rewardVars, token, reputation, userStats, articles, tagDemand>>

\* a review of article a1 by a contributor of reputation 1.0, scored with the
\* demand the article's tag starts with
reviewEvent(id, userId, quality, createdAt) ==
  [ id |-> id, userId |-> userId, articleId |-> "a1", type |-> "review",
    basePoints |-> 10, qualityMultiplier |-> quality,
    reputationMultiplier |-> 100, demandMultiplier |-> SeedDemand["solana"],
    totalPoints |-> calculateTotalPoints(10, quality, 100, SeedDemand["solana"]),
    createdAt |-> createdAt ]

\* one event a day from day 0 to day HistoryLimit: the oldest one, of the
\* best quality, is not among the last HistoryLimit
LongHistory(userId) ==
  { reviewEvent(day + 1, userId, IF day = 0 THEN 300 ELSE 50, day) :
      day \in 0 .. HistoryLimit }

\* no event, one event, two events of unlike quality
ShortHistories(userId) ==
  { {},
    { reviewEvent(1, userId, 50, HistoryLimit - 1) },
    { reviewEvent(1, userId, 300, HistoryLimit - 1) },
    { reviewEvent(1, userId, 50, HistoryLimit - 1),
      reviewEvent(2, userId, 300, HistoryLimit) } }

\* the Contribution rows present at start: a history of u1 and one event of u2
UpkeepContributionSets ==
  { history \cup { reviewEvent(HistoryLimit + 2, "u2", 300, HistoryLimit) } :
      history \in ShortHistories("u1") \cup { LongHistory("u1") } }

\* the jobs have not run yet; it is day HistoryLimit
InitUpkeep ==
  /\ contributions \in UpkeepContributionSets
  /\ reputation = [u \in Users |-> 100]
  /\ userStats =
       [u \in Users |->
          [ totalContributions |-> Cardinality({ c \in contributions : c.userId = u }),
            totalPoints |-> SumPoints({ c \in contributions : c.userId = u }) ]]
  /\ articles = [a \in Articles |->
                  [ totalRevisions |-> 1 + Cardinality(contributions),
                    qualityScore |-> 100 ]]
  /\ tagDemand = SeedDemand
  /\ now = HistoryLimit
  /\ walletAddress = [u \in Users |-> "valid"]
  /\ totalTokensEarned = [u \in Users |-> 0]
  /\ weeklyRewards = <<>>
  /\ userRewards = EmptyBag
  /\ ledger = <<>>
  /\ balance \in InitBalances
  /\ dwr = NoDwr
  /\ script = NoScript
  /\ faults = 0
  /\ token = NoTransfer

NextUpkeep ==
  \/ \E userId \in Users : updateUserReputation(userId)
  \/ updateTagDemandMultipliers
  \/ Tick

SpecUpkeep == InitUpkeep /\ [][NextUpkeep]_vars

(***************************************************************************)
(* wct_token::transfer_with_fee, the on-chain program.  A transaction      *)
(* whose instruction panics or returns an error changes nothing.  The      *)
(* token accounts hold amounts up to MaxAmount in place of u64::MAX.       *)
(***************************************************************************)
\* the amounts callers pass
Amounts ==
  {0, 1, 49, 50, 99, 100, 2499, 2500, 5000,
   MaxAmount \div 2, MaxAmount \div 2 + 1, MaxAmount}

\* amount.checked_mul(2).unwrap() panics
feeOverflows(amount) == amount > MaxAmount \div 2

\* amount.checked_mul(2).unwrap().checked_div(100).unwrap()
feeAmount(amount) == (amount * 2) \div 100

\* fee_amount.checked_mul(20).unwrap().checked_div(100).unwrap()
burnAmount(fee) == (fee * 20) \div 100

\* fee_amount.checked_mul(50).unwrap().checked_div(100).unwrap()
treasuryAmount(fee) == (fee * 50) \div 100

\* the staking share as 30% of the fee
stakingAmountThirtyPercent(fee, burn, treasury) == (fee * 30) \div 100

\* fee_amount.checked_sub(burn_amount).unwrap().checked_sub(treasury_amount).unwrap()
stakingAmount(fee, burn, treasury) == fee - burn - treasury

\* transfer_with_fee(ctx, amount): the three token::transfer, the
\* token::burn and the TransferEvent; the SPL token program rejects a
\* transfer or a burn of more than the account holds
transfer_with_fee(amount) ==
  LET fee_amount == feeAmount(amount)
      transfer_amount == amount - fee_amount
      burn_amount == burnAmount(fee_amount)
      treasury_amount == treasuryAmount(fee_amount)
      staking_amount == stakingAmount(fee_amount, burn_amount, treasury_amount)
  IN /\ token.calls < MaxCalls
     /\ ~feeOverflows(amount)
     /\ token.from >= transfer_amount
     /\ token.from - transfer_amount >= treasury_amount
     /\ token.from - transfer_amount - treasury_amount >= staking_amount
     /\ token.from - transfer_amount - treasury_amount - staking_amount >= burn_amount
     /\ token' = [ from |-> token.from - transfer_amount - treasury_amount
                              - staking_amount - burn_amount,
                   to |-> token.to + transfer_amount,
                   treasury |-> token.treasury + treasury_amount,
                   staking |-> token.staking + staking_amount,
                   supply |-> token.supply - burn_amount,
                   calls |-> token.calls + 1,
                   amount |-> amount,
                   fee |-> fee_amount,
                   burned |-> burn_amount ]
     /\ UNCHANGED <<contributions, rewardVars, wikiVars>>

InitFee ==
  /\ contributions = {}
  /\ reputation = [u \in Users |-> 100]
  /\ userStats = [u \in Users |-> [totalContributions |-> 0, totalPoints |-> 0]]
  /\ articles = [a \in Articles |-> [totalRevisions |-> 1, qualityScore |-> 100]]
  /\ tagDemand = SeedDemand
  /\ now = 1
  /\ walletAddress = [u \in Users |-> "valid"]
  /\ totalTokensEarned = [u \in Users |-> 0]
  /\ weeklyRewards = <<>>
  /\ userRewards = EmptyBag
  /\ ledger = <<>>
  /\ balance \in InitBalances
  /\ dwr = NoDwr
  /\ script = NoScript
  /\ faults = 0
  /\ token = NoTransfer

NextFee == \E amount \in Amounts : transfer_with_fee(amount)

SpecFee == InitFee /\ [][NextFee]_vars

(***************************************************************************)
(* Vocabulary of the properties.                                           *)
(***************************************************************************)
\* the Payout Records (UserReward rows) in the table
PayoutRecords == BagToSet(userRewards)

\* a success Payout Record carries a transaction reference
IsSuccess(r) == r.txHash # NullHash

\* the two Distribution Runs (WeeklyReward rows) are for the same window
SameWindow(id1, id2) ==
  /\ weeklyRewards[id1].weekStartDate = weeklyRewards[id2].weekStartDate
  /\ weeklyRewards[id1].weekEndDate = weeklyRewards[id2].weekEndDate

\* the windows of the two Distribution Runs share an instant
Overlapping(id1, id2) ==
  /\ weeklyRewards[id1].weekStartDate <= weeklyRewards[id2].weekEndDate
  /\ weeklyRewards[id2].weekStartDate <= weeklyRewards[id1].weekEndDate

TerminalStatus == {"completed", "partial", "failed"}
OpenStatus == {"pending", "processing"}

\* the contributor has a success Payout Record in a run of the window of run id
HasSuccessRecord(userId, id) ==
  \E q \in PayoutRecords :
    /\ IsSuccess(q)
    /\ q.userId = userId
    /\ SameWindow(q.weeklyRewardId, id)

\* this step is one iteration of the loop of distributeWeeklyRewards
DwrIteration ==
  /\ dwr.pc = "loop"
  /\ dwr.i <= Len(dwr.userRewards)
  /\ dwr' # dwr

\* this step submits a transfer to the ledger
Submits == Len(ledger') > Len(ledger)

(***************************************************************************)
(* C1.  No double payment on resume: distributeWeeklyRewards submits no    *)
(* ledger transfer for a contributor who already has a success Payout      *)
(* Record in a run of the same window.                                     *)
(* Violated: every invocation creates a new run and pays its whole plan.   *)
(***************************************************************************)
C1_NoDoublePayment ==
  [][ (DwrIteration /\ Submits)
        => ~HasSuccessRecord(ledger'[Len(ledger')].to, dwr.weeklyRewardId) ]_vars

(***************************************************************************)
(* C2.  No duplicate Payout Record: an iteration of distributeWeeklyRewards*)
(* creates no Payout Record for a contributor who already has a success    *)
(* Payout Record in a run of the same window, so a second run over N       *)
(* success records leaves N records.                                       *)
(* Violated: the loop creates its records without reading the table.       *)
(***************************************************************************)
C2_NoDuplicateRecord ==
  [][ DwrIteration
        => \A r \in BagToSet(userRewards') :
             CopiesIn(r, userRewards') > CopiesIn(r, userRewards)
               => ~HasSuccessRecord(r.userId, r.weeklyRewardId) ]_vars

(***************************************************************************)
(* C3.  A contributor's failure never aborts the run: every iteration of   *)
(* the loop of distributeWeeklyRewards ends inside the loop, at the next   *)
(* contributor; no exception leaves the loop.                               *)
(* Violated: UserReward.create in the catch block throws past the loop.    *)
(***************************************************************************)
C3_FailureNeverAborts ==
  [][ DwrIteration => (dwr'.pc = "loop" /\ dwr'.i = dwr.i + 1) ]_vars

(***************************************************************************)
(* C4.  Every failure is recorded: when the loop of distributeWeeklyRewards*)
(* is over, each planned contributor without a success Payout Record in    *)
(* the run has a Payout Record of the run with a null transaction          *)
(* reference.                                                              *)
(* Violated: a contributor without a wallet address is counted, not        *)
(* recorded.                                                               *)
(***************************************************************************)
C4_EveryFailureRecorded ==
  (dwr.pc = "loop" /\ dwr.i > Len(dwr.userRewards))
    => \A k \in DOMAIN dwr.userRewards :
         \E r \in PayoutRecords :
           /\ r.weeklyRewardId = dwr.weeklyRewardId
           /\ r.userId = dwr.userRewards[k].userId

(***************************************************************************)
(* C5.  The final status: when distributeWeeklyRewards leaves the loop and *)
(* the database is up, the run's status is completed iff every payout      *)
(* succeeded, partial iff one succeeded and one failed, failed iff none    *)
(* succeeded.                                                              *)
(* Violated: the status column rejects 'partial', the run stays            *)
(* 'processing'.                                                           *)
(***************************************************************************)
C5_FinalStatus ==
  [][ (dwr.pc = "loop" /\ dwr.i > Len(dwr.userRewards) /\ dwr'.pc = "done"
         /\ faults' = faults)
        => LET status == weeklyRewards'[dwr.weeklyRewardId].status
               succeeded == dwr.successfulTransactions
               failed == dwr.failedTransactions
           IN /\ status = "completed" <=> (succeeded > 0 /\ failed = 0)
              /\ status = "partial" <=> (succeeded > 0 /\ failed > 0)
              /\ status = "failed" <=> succeeded = 0 ]_vars

(***************************************************************************)
(* C6.  Status monotonicity: no step takes a Distribution Run whose status *)
(* is completed, partial or failed back to pending or processing.          *)
(***************************************************************************)
C6_StatusMonotonic ==
  [][ \A id \in DOMAIN weeklyRewards :
        weeklyRewards[id].status \in TerminalStatus
          => /\ id \in DOMAIN weeklyRewards'
             /\ weeklyRewards'[id].status \notin OpenStatus ]_vars

\* a run has failed and distributeWeeklyRewards has been invoked again since
C6_Witness ==
  \E id \in DOMAIN weeklyRewards :
    /\ weeklyRewards[id].status = "failed"
    /\ dwr.pc = "loop"
    /\ dwr.weeklyRewardId > id

(***************************************************************************)
(* C7.  Success only after confirmation: an iteration of                   *)
(* distributeWeeklyRewards counts a payout in successfulTransactions only  *)
(* if the ledger confirmed the transfer it submitted.                      *)
(* Violated: the result of confirmTransaction is not read, a transfer that *)
(* failed on the ledger is recorded as a success.                          *)
(***************************************************************************)
C7_SuccessOnlyConfirmed ==
  [][ (DwrIteration /\ dwr'.pc = "loop"
         /\ dwr'.successfulTransactions > dwr.successfulTransactions)
        => (Submits /\ ledger'[Len(ledger')].status = "confirmed") ]_vars

\* the largest amount of a success Payout Record of the contributor in the run
RecordedOnce(userId, id) ==
  LET amounts == { q.tokens : q \in { r \in PayoutRecords :
                                        /\ IsSuccess(r)
                                        /\ r.userId = userId
                                        /\ r.weeklyRewardId = id } }
  IN IF amounts = {} THEN 0 ELSE CHOOSE t \in amounts : \A x \in amounts : x <= t

\* what the contributor has earned if every run paid them at most once
RECURSIVE EarnedOnce(_, _)
EarnedOnce(userId, ids) ==
  IF ids = {} THEN 0
  ELSE LET id == CHOOSE x \in ids : TRUE
       IN RecordedOnce(userId, id) + EarnedOnce(userId, ids \ {id})

(***************************************************************************)
(* C8.  totalTokensEarned is incremented at most once per contributor per  *)
(* run: the counter never exceeds one success Payout Record's amount for   *)
(* each run the contributor has a success Payout Record in.                *)
(* Violated: a repeated POST /rewards/confirm for the same run and         *)
(* contributor increments the counter again.                               *)
(***************************************************************************)
C8_EarnedOncePerRun ==
  \A userId \in Users :
    totalTokensEarned[userId] <= EarnedOnce(userId, DOMAIN weeklyRewards)

\* the invocation of distributeWeeklyRewards has submitted no transfer yet
NothingSubmitted ==
  \A k \in DOMAIN ledger : ledger[k].run # dwr.weeklyRewardId

(***************************************************************************)
(* C9.  Pre-flight balance check: distributeWeeklyRewards submits the      *)
(* first transfer of a run only if the paying account holds the sum of all *)
(* planned amounts.                                                        *)
(* Violated: distributeWeeklyRewards never reads the balance.              *)
(***************************************************************************)
C9_PreflightBalance ==
  [][ (DwrIteration /\ Submits /\ NothingSubmitted)
        => balance >= SumTokens(dwr.userRewards) ]_vars

(***************************************************************************)
(* C10.  Run serialization: no two Distribution Runs with overlapping      *)
(* windows are both pending or processing.                                 *)
(* Violated: neither createWeeklyReward nor distributeWeeklyRewards looks  *)
(* for an open run before it creates one.                                  *)
(***************************************************************************)
C10_RunSerialization ==
  \A id1, id2 \in DOMAIN weeklyRewards :
    (id1 # id2 /\ Overlapping(id1, id2))
      => ~(weeklyRewards[id1].status \in OpenStatus
             /\ weeklyRewards[id2].status \in OpenStatus)

\* the plans in memory: of distributeWeeklyRewards and of the script
Plans == {dwr.userRewards, script.userContributions}

(***************************************************************************)
(* C11.  The planning formula: every planned payout is                     *)
(* max(floor(points * pool / totalPoints), minFloor), totalPoints the sum  *)
(* of the plan's points, hence at least minFloor; the run persists the     *)
(* ratio pool / totalPoints.                                               *)
(***************************************************************************)
C11_PlanFormula ==
  /\ \A plan \in Plans : \A k \in DOMAIN plan :
       /\ plan[k].tokenAmount =
            Max(floorShare(plan[k].points, WEEKLY_REWARD_POOL, SumPlanPoints(plan)),
                MIN_TOKENS_PER_USER)
       /\ plan[k].tokenAmount >= MIN_TOKENS_PER_USER
  /\ dwr.pc = "loop"
       => weeklyRewards[dwr.weeklyRewardId].pointToTokenRatio
            = <<WEEKLY_REWARD_POOL, SumPlanPoints(dwr.userRewards)>>

\* a plan with a payout raised to the minimum and a payout above it
C11_Witness ==
  \E plan \in Plans : \E j, k \in DOMAIN plan :
    /\ floorShare(plan[j].points, WEEKLY_REWARD_POOL, SumPlanPoints(plan))
         < MIN_TOKENS_PER_USER
    /\ plan[j].tokenAmount = MIN_TOKENS_PER_USER
    /\ plan[k].tokenAmount > MIN_TOKENS_PER_USER

\* distributeWeeklyRewards is through its loop and every payout succeeded
AllSucceeded ==
  /\ dwr.pc = "loop"
  /\ dwr.i > Len(dwr.userRewards)
  /\ dwr.successfulTransactions = Len(dwr.userRewards)

(***************************************************************************)
(* C12.  Conservation under full success, as stated: when every payout of  *)
(* a run succeeded, the payout amounts sum to at least ratio * totalPoints,*)
(* the nominal pool.                                                       *)
(* Violated: each floor drops the fraction of a share, 3 and 4 points of 7 *)
(* are paid 85714 + 114285 = 199999 of 200000.                             *)
(***************************************************************************)
C12_ConservationAsStated ==
  AllSucceeded => SumTokens(dwr.userRewards) >= WEEKLY_REWARD_POOL

(***************************************************************************)
(* C12, amended.  When every payout of a run succeeded, the payout amounts *)
(* sum to at least the nominal pool less one token per planned             *)
(* contributor, and to at least the minimum payout per planned contributor.*)
(***************************************************************************)
C12_ConservationAmended ==
  AllSucceeded
    => /\ SumTokens(dwr.userRewards) >= WEEKLY_REWARD_POOL - Len(dwr.userRewards)
       /\ SumTokens(dwr.userRewards) >= MIN_TOKENS_PER_USER * Len(dwr.userRewards)

\* every payout of a run of two contributors succeeded and the sum is short of the pool
C12_Witness ==
  /\ AllSucceeded
  /\ Len(dwr.userRewards) = 2
  /\ SumTokens(dwr.userRewards) < WEEKLY_REWARD_POOL

(***************************************************************************)
(* C13.  Zero points is not a failure: for a window without contribution   *)
(* events the aggregator returns an empty plan and createWeeklyReward      *)
(* returns without an error.                                               *)
(* Violated: createWeeklyReward throws 'No contributions to reward for     *)
(* this period' and POST /rewards/create-distribution answers 500.         *)
(***************************************************************************)
C13_ZeroPointsNoFailure ==
  \A w \in Windows :
    findContributions(w[1], w[2]) = {}
      => /\ calculateWeeklyRewards(w[1], w[2], <<>>) = <<>>
         /\ ~createWeeklyRewardThrows(w[1], w[2])

\* the contribution events with createdAt in [startDate, endDate)
HalfOpen(startDate, endDate) ==
  { c \in contributions : startDate <= c.createdAt /\ c.createdAt < endDate }

(***************************************************************************)
(* C14.  The aggregation window is half-open: the run distributeWeekly-    *)
(* Rewards persists totals the points of the events with createdAt in      *)
(* [startDate, endDate), an event created at endDate is left to the next   *)
(* window.                                                                 *)
(* Violated: Op.between is SQL BETWEEN, which includes both ends.          *)
(***************************************************************************)
C14_HalfOpenWindow ==
  dwr.pc = "loop"
    => weeklyRewards[dwr.weeklyRewardId].totalPoints
         = SumPoints(HalfOpen(dwr.startDate, dwr.endDate))

\* the sum of totalPoints over a set of contribution events
RECURSIVE EventPoints(_)
EventPoints(S) ==
  IF S = {} THEN 0
  ELSE LET c == CHOOSE x \in S : \A y \in S : y.id <= x.id
       IN c.totalPoints + EventPoints(S \ {c})

\* the plan groups the events the aggregator fetched for the window
Aggregates(plan, startDate, endDate) ==
  LET events == findContributions(startDate, endDate)
  IN /\ \A j, k \in DOMAIN plan : j # k => plan[j].userId # plan[k].userId
     /\ { plan[k].userId : k \in DOMAIN plan } = { c.userId : c \in events }
     /\ \A k \in DOMAIN plan :
          plan[k].points = EventPoints({ c \in events : c.userId = plan[k].userId })
     /\ SumPlanPoints(plan) = EventPoints(events)

(***************************************************************************)
(* C15.  Aggregation: in every plan each contributor with an event in the  *)
(* window appears exactly once, with the sum of the totalPoints of their   *)
(* events; the plan's points and every run's totalPoints sum the events of *)
(* the window.                                                             *)
(***************************************************************************)
C15_Aggregation ==
  /\ dwr.pc = "loop" => Aggregates(dwr.userRewards, dwr.startDate, dwr.endDate)
  /\ script.pc = "loop"
       => Aggregates(script.userContributions, script.weekStartDate, script.weekEndDate)
  /\ \A id \in DOMAIN weeklyRewards :
       weeklyRewards[id].totalPoints
         = EventPoints(findContributions(weeklyRewards[id].weekStartDate,
                                         weeklyRewards[id].weekEndDate))

\* a plan of two contributors, one of them with two events in the window
C15_Witness ==
  /\ dwr.pc = "loop"
  /\ Len(dwr.userRewards) = 2
  /\ \E k \in DOMAIN dwr.userRewards :
       Cardinality({ c \in findContributions(dwr.startDate, dwr.endDate) :
                       c.userId = dwr.userRewards[k].userId }) = 2

(***************************************************************************)
(* C16.  Lifecycle order: every Distribution Run is created pending; a     *)
(* step that changes a run's status takes it from pending to processing or *)
(* from processing to completed, partial or failed.                        *)
(* Violated: distributeWeeklyRewards creates its run in 'processing', and  *)
(* no operation moves a pending run to 'processing'.                       *)
(***************************************************************************)
C16_LifecycleOrder ==
  [][ /\ \A id \in DOMAIN weeklyRewards' \ DOMAIN weeklyRewards :
           weeklyRewards'[id].status = "pending"
      /\ \A id \in DOMAIN weeklyRewards :
           weeklyRewards'[id].status # weeklyRewards[id].status
             => \/ /\ weeklyRewards[id].status = "pending"
                   /\ weeklyRewards'[id].status = "processing"
                \/ /\ weeklyRewards[id].status = "processing"
                   /\ weeklyRewards'[id].status \in TerminalStatus ]_vars

(***************************************************************************)
(* C17.  One Distribution Run per period: no two runs have the same        *)
(* (weekStartDate, weekEndDate), so the lookup by window finds one run.    *)
(* Violated: createWeeklyReward and distributeWeeklyRewards create a run   *)
(* whenever they are called.                                               *)
(***************************************************************************)
C17_OneRunPerWindow ==
  \A id1, id2 \in DOMAIN weeklyRewards : SameWindow(id1, id2) => id1 = id2

(***************************************************************************)
(* C18.  A single terminal status update: no step changes the status of a  *)
(* Distribution Run that is completed, partial or failed.                  *)
(* Violated: completeDistribution and POST /rewards/distribution-complete  *)
(* write 'completed' over any status, the final update of                  *)
(* distributeWeeklyRewards writes over a status set meanwhile.             *)
(***************************************************************************)
C18_SingleTerminalUpdate ==
  [][ \A id \in DOMAIN weeklyRewards :
        weeklyRewards[id].status \in TerminalStatus
          => weeklyRewards'[id].status = weeklyRewards[id].status ]_vars

\* this step is distributeWeeklyRewards leaving through its outer catch with
\* its run created
AbortsRun ==
  /\ dwr.pc = "loop"
  /\ dwr'.pc = "done"
  /\ dwr'.result = "error"

(***************************************************************************)
(* C19.  Run-level fatal errors: when distributeWeeklyRewards aborts in    *)
(* its outer catch, the run is pending or processing and has no Payout     *)
(* Record.                                                                 *)
(* Violated: the outer catch is reached from inside and from after the     *)
(* loop, with the Payout Records of the contributors handled so far.       *)
(***************************************************************************)
C19_AbortLeavesNoRecord ==
  [][ AbortsRun
        => /\ weeklyRewards'[dwr.weeklyRewardId].status \in OpenStatus
           /\ \A r \in BagToSet(userRewards') :
                r.weeklyRewardId # dwr.weeklyRewardId ]_vars

\* the inclusive range of the base points of a kind of contribution
KindRange(kind) ==
  CASE kind = "creation" -> 50 .. 200
    [] kind = "major_edit" -> 20 .. 100
    [] kind = "minor_edit" -> 5 .. 20
    [] kind = "review" -> 10 .. 50

\* base * quality * reputation * demand of a stored event, times 1000000
StoredProduct(c) ==
  c.basePoints * c.qualityMultiplier * c.reputationMultiplier * c.demandMultiplier

(***************************************************************************)
(* C20.  The scoring invariant: every stored Contribution Event has        *)
(* totalPoints = floor(basePoints * qualityMultiplier * reputation-        *)
(* Multiplier * demandMultiplier) over its stored factors, the floor taken *)
(* once, and basePoints in the inclusive range of its kind.                *)
(***************************************************************************)
C20_ScoringInvariant ==
  \A c \in contributions :
    /\ c.totalPoints * 1000000 <= StoredProduct(c)
    /\ StoredProduct(c) < (c.totalPoints + 1) * 1000000
    /\ c.basePoints \in KindRange(c.type)

\* a stored creation at the top of its range, and a stored event whose
\* product is not whole
C20_Witness ==
  /\ \E c \in contributions : c.type = "creation" /\ c.basePoints = 200
  /\ \E c \in contributions : StoredProduct(c) % 1000000 # 0

(***************************************************************************)
(* C21.  Contribution Events are immutable: no step of the periodic jobs   *)
(* changes or removes a stored event, so an event keeps its reputation     *)
(* snapshot and its totalPoints when the contributor's reputation changes. *)
(***************************************************************************)
C21_EventsImmutable ==
  [][\A c \in contributions : c \in contributions']_vars

\* the reputation of a contributor has changed since an event of theirs, and
\* a tag's demand has changed since an event of its article
C21_Witness ==
  \E c \in contributions :
    /\ reputation[c.userId] # c.reputationMultiplier
    /\ tagDemand["solana"] # c.demandMultiplier

(***************************************************************************)
(* C22.  The reputation multiplier is within [0.8, 1.5] in every state;    *)
(* every call of updateUserReputation returns a value in that range; with  *)
(* an empty history it returns 1.0 and leaves the stored value as it is.   *)
(***************************************************************************)
C22_ReputationRange ==
  /\ [](\A u \in Users :
          /\ reputation[u] \in 80 .. 150
          /\ \A history \in lastContributions(u) :
               /\ updateUserReputationReturns(history) \in 80 .. 150
               /\ history = {} => updateUserReputationReturns(history) = 100)
  /\ [][\A u \in Users :
          { c \in contributions : c.userId = u } = {} => reputation'[u] = reputation[u]]_vars

\* updateUserReputation has stored a value inside the range for u1 and the
\* top of the range for u2
C22_Witness ==
  /\ reputation["u1"] = 115
  /\ reputation["u2"] = 150

\* the contributions to the articles of a topic in the last 30 days
RecentCount(tag) ==
  Cardinality({ c \in contributions :
                  tag \in articleTags[c.articleId] /\ c.createdAt + 30 >= now })

\* 1.0 when there is none, else 1.0 + min(1.5, recentCount / 10)
ComputedMultiplier(recentCount) ==
  IF recentCount = 0 THEN 100
  ELSE IF recentCount >= 15 THEN 250 ELSE 100 + 10 * recentCount

\* the distance of two multipliers, in hundredths
Distance(a, b) == IF a >= b THEN a - b ELSE b - a

C24_OneRecordPerPair ==
  [][ DwrIteration
        => BagCardinality(userRewards') <= BagCardinality(userRewards) + 1 ]_vars

\* the outcomes of the payouts of the script's run
ScriptSucceeded ==
  Cardinality({ k \in DOMAIN script.transactions :
                  script.transactions[k].status = "success" })
ScriptFailed ==
  Cardinality({ k \in DOMAIN script.transactions :
                  script.transactions[k].status = "failed" })

\* the status the outcomes call for
OutcomeStatus(succeeded, failed) ==
  IF succeeded = 0 THEN "failed"
  ELSE IF failed = 0 THEN "completed" ELSE "partial"

(***************************************************************************)
(* C25.  The external-driver flow: when the script has made its POST       *)
(* /rewards/distribution-complete for a window that has a run, a run of    *)
(* the window has the status the outcomes call for: completed iff every    *)
(* payout succeeded, partial iff some succeeded and some failed, failed    *)
(* iff none succeeded.                                                     *)
(* Violated: the route never assigns 'failed'; with no success it assigns  *)
(* 'partial', which the column rejects, and the run stays pending.         *)
(***************************************************************************)
C25_DriverFinalStatus ==
  [][ ( /\ script.pc = "loop"
        /\ script.i > Len(script.userContributions)
        /\ script'.pc = "done"
        /\ \E id \in DOMAIN weeklyRewards :
             /\ weeklyRewards[id].weekStartDate = script.weekStartDate
             /\ weeklyRewards[id].weekEndDate = script.weekEndDate )
        => \E id \in DOMAIN weeklyRewards' :
             /\ weeklyRewards'[id].weekStartDate = script.weekStartDate
             /\ weeklyRewards'[id].weekEndDate = script.weekEndDate
             /\ weeklyRewards'[id].status = OutcomeStatus(ScriptSucceeded, ScriptFailed) ]_vars

(***************************************************************************)
(* C26.  A run whose loop has run to its end is not left open: when        *)
(* distributeWeeklyRewards returns after the loop and the database is up,  *)
(* the run's status is neither pending nor processing.                     *)
(* Violated: with mixed outcomes the update to 'partial' is rejected by    *)
(* the status column and the run stays 'processing'.                       *)
(***************************************************************************)
C26_TerminalStatusPersisted ==
  [][ ( /\ dwr.pc = "loop"
        /\ dwr.i > Len(dwr.userRewards)
        /\ dwr'.pc = "done"
        /\ faults' = faults )
        => weeklyRewards'[dwr.weeklyRewardId].status \notin OpenStatus ]_vars

\* the ledger holds a transfer of the run to the contributor that moved tokens
Transferred(userId, id) ==
  \E k \in DOMAIN ledger :
    /\ ledger[k].run = id
    /\ ledger[k].to = userId
    /\ ledger[k].status = "confirmed"

(***************************************************************************)
(* C27.  Ledger and records agree: a Payout Record with a null transaction *)
(* reference exists only for a contributor the run transferred no tokens   *)
(* to.                                                                     *)
(* Violated: the transfer is confirmed, UserReward.create throws, and the  *)
(* catch block records the payout as failed.                               *)
(***************************************************************************)
C27_FailedMeansNotTransferred ==
  \A r \in PayoutRecords :
    ~IsSuccess(r) => ~Transferred(r.userId, r.weeklyRewardId)

\* the tokens of the success Payout Records of the contributor among rows
RECURSIVE SuccessTokens(_, _)
SuccessTokens(userId, rows) ==
  IF rows = {} THEN 0
  ELSE LET r == CHOOSE x \in rows : TRUE
       IN (IF IsSuccess(r) /\ r.userId = userId
           THEN r.tokens * CopiesIn(r, userRewards) ELSE 0)
          + SuccessTokens(userId, rows \ {r})

(***************************************************************************)
(* C28.  Between operations, a contributor's totalTokensEarned is the sum  *)
(* of the tokens of their success Payout Records.                          *)
(* Violated: User.increment throws after UserReward.create has stored the  *)
(* success record.                                                         *)
(***************************************************************************)
C28_EarnedMatchesRecords ==
  \A userId \in Users :
    totalTokensEarned[userId] = SuccessTokens(userId, PayoutRecords)

(***************************************************************************)
(* C29.  The points round trip of the confirm path: the Payout Record an   *)
(* iteration of the driver script has stored through POST /rewards/confirm *)
(* carries the points the contributor was planned with, their aggregated   *)
(* points for the window.                                                  *)
(* Violated: a contributor paid the minimum payout gets the points of the  *)
(* minimum payout, round(10 / ratio), not their own.                       *)
(***************************************************************************)
C29_PointsRoundTrip ==
  [][ (script.pc = "loop" /\ script'.pc = "loop" /\ script'.i = script.i + 1)
        => \A r \in BagToSet(userRewards') :
             CopiesIn(r, userRewards') > CopiesIn(r, userRewards)
               => r.points = script.userContributions[script.i].points ]_vars

(***************************************************************************)
(* C30.  Fee conservation in transfer_with_fee: a call that succeeds with  *)
(* amount has fee = floor(amount * 2 / 100), burns floor(fee * 20 / 100),  *)
(* pays floor(fee * 50 / 100) to the treasury, fee - burned - treasury to  *)
(* staking and amount - fee to the recipient; the four parts add up to     *)
(* amount, which the sender pays, and the supply loses what is burned.     *)
(***************************************************************************)
C30_FeeConservation ==
  [][ token'.calls > token.calls =>
        LET amount == token'.amount
            fee == (amount * 2) \div 100
            burned == (fee * 20) \div 100
            treasury == (fee * 50) \div 100
            staking == fee - burned - treasury
            received == token'.to - token.to
        IN /\ token'.fee = fee
           /\ token'.burned = burned
           /\ token.supply - token'.supply = burned
           /\ token'.treasury - token.treasury = treasury
           /\ token'.staking - token.staking = staking
           /\ received = amount - fee
           /\ received + (token'.treasury - token.treasury)
                + (token'.staking - token.staking)
                + (token.supply - token'.supply) = amount
           /\ token.from - token'.from = amount ]_vars

\* a transfer of 2499 has succeeded: fee 49, burned 9, treasury 24, staking 16
C30_Witness ==
  /\ token.amount = 2499
  /\ token.fee = 49
  /\ token.staking >= 16
  /\ token.calls > 0

====
